---------------------------- MODULE Spec2Model ----------------------------
(***************************************************************************)
(* Current_Sensor_Plotter: the command-line poller (read_current.py) and   *)
(* the threaded reader (read_current_gui.py).                              *)
(*                                                                         *)
(* Spec    : the command-line poll loop over a byte stream that arrives in *)
(*           bursts separated by pauses longer than the read timeout.      *)
(* SpecGui : the threaded reader: the Tk main thread (start_reading,       *)
(*           stop_reading, save_plot), the read_serial_data threads and    *)
(*           the update_plot threads, interleaved statement by statement.  *)
(***************************************************************************)
EXTENDS Integers, Sequences, FiniteSets, TLC

VARIABLES
    \* ---- read_current.py ----
    plan,            \* what the device sends: tokens (bytes, frames, pauses); never changes
    rx,              \* bytes still to arrive: a sequence of bursts
    link,            \* "up" | "down": while down, ser.read / ser.write raise
    failures,        \* how many times the link has failed
    pc,              \* position of the poll loop
    frame,           \* the local `frame` of receive_data_with_crc
    data_value,      \* the local `data_value` of the poll loop
    timeouts,        \* consecutive empty ser.read(1) results of the running call
    consumed,        \* every byte read so far, -1 for a read that timed out
    returned,        \* values returned by the calls so far, with the read position
    processed_data,  \* the deque; an element e stands for the float e / 10000
    tx,              \* commands written by send_command, with the read position
    sink,            \* everything printed
    \* ---- read_current_gui.py ----
    is_reading, stop_event, serial_port, open_ports,
    time_data, current_data,
    line_x, line_y,  \* the data last handed to self.line by update_plot
    main,            \* position of the Tk main thread
    reader,          \* per session: position of its read_serial_data thread
    rlocal,          \* per session: the sample its reader is pushing
    updater,         \* per session: position of its update_plot thread
    sessions,        \* start_reading calls that opened a port
    lines_read,      \* numeric lines received so far (each is one sample)
    start_enabled,   \* state of the Start button (Stop is its complement)
    last_call,       \* "none" | "start" | "stop": the control call made last
    \* ---- calculate_crc16 called on its own ----
    crc_data,        \* the argument `data`
    crc_result       \* what the call returned, -1 before it returns

cliVars == <<plan, rx, link, failures, pc, frame, data_value, timeouts, consumed,
             returned, processed_data, tx, sink>>
guiVars == <<is_reading, stop_event, serial_port, open_ports, time_data,
             current_data, line_x, line_y, main, reader, rlocal, updater,
             sessions, lines_read, start_enabled, last_call>>
crcVars == <<crc_data, crc_result>>
vars == <<cliVars, guiVars, crcVars>>

----------------------------------------------------------------------------
(* Bounds of the model *)

\* failures of the serial link
MaxFailures == 1
\* length of the byte strings given to calculate_crc16 on its own
MaxCrcLen == 3
\* tokens in a device plan
MaxItems == 5
\* consecutive empty reads explored before the model stops counting
MaxTimeouts == 3
\* stands for window_size = 500 (read_current.py:78), scaled down
window_size == 2
\* stands for self.max_points = 500 (read_current_gui.py:22), scaled down
max_points == 1
\* start_reading calls that open a port
MaxSessions == 2
\* numeric lines the sensor sends
MaxLines == 2

----------------------------------------------------------------------------
(* Bytes and CRC16 *)

START_BYTE == 1
CRC_INIT == 65535
CRC_POLY == 40961
FRAME_REST == 6

Min(a, b) == IF a < b THEN a ELSE b

\* a ^ b on non-negative integers
RECURSIVE BitXor(_, _)
BitXor(a, b) ==
    IF a = 0 THEN b
    ELSE IF b = 0 THEN a
    ELSE ((a + b) % 2) + 2 * BitXor(a \div 2, b \div 2)

\* the inner loop: for _ in range(8)
ShiftBitsBad(crc, n) == crc \div 2
RECURSIVE ShiftBits(_, _)
ShiftBits(crc, n) ==
    IF n = 0 THEN crc
    ELSE IF crc % 2 = 1
         THEN ShiftBits(BitXor(crc \div 2, CRC_POLY), n - 1)
         ELSE ShiftBits(crc \div 2, n - 1)

\* the outer loop: for byte in data, over the first n bytes
RECURSIVE CrcBytes(_, _)
CrcBytes(data, n) ==
    IF n = 0 THEN CRC_INIT
    ELSE ShiftBits(BitXor(CrcBytes(data, n - 1), data[n]), 8)

calculate_crc16Bad(data) == Len(data)
calculate_crc16(data) == CrcBytes(data, Len(data)) % 65536

\* struct.pack('<H', x)
PackLEBad(x) == <<(x \div 256) % 256, x % 256>>
PackLE(x) == <<x % 256, (x \div 256) % 256>>
\* struct.unpack('<H', b)[0]
UnpackLE(b) == b[1] + 256 * b[2]

\* the bytes send_command writes
Command ==
    LET command == <<1, 3, 0, 86, 0, 1>>
    IN  command \o PackLE(calculate_crc16(command))

\* (msb << 8) | lsb of frame[3], frame[4] (0-based)
DataValueBad(f) == (f[5] * 256) + f[4]
DataValue(f) == (f[4] * 256) + f[5]

\* received_crc == calculated_crc over frame[-2:] and frame[:-2]
CrcMatchesBad(f) == TRUE
CrcMatches(f) ==
    UnpackLE(SubSeq(f, Len(f) - 1, Len(f))) = calculate_crc16(SubSeq(f, 1, Len(f) - 2))

\* data_value * 200 / 10000, kept exact as the numerator over 10000
ToPlot(v) == v * 200

\* deque(maxlen = window_size).append
DequeAppendBad(d, x) == IF Len(d) >= window_size THEN d ELSE Append(d, x)
DequeAppend(d, x) ==
    IF Len(d) >= window_size THEN Append(Tail(d), x) ELSE Append(d, x)

----------------------------------------------------------------------------
(* The device: what arrives on the wire *)

\* a well-formed response carrying v
ResponseFrame(v) ==
    LET body == <<1, 3, 2, v \div 256, v % 256>>
    IN  body \o PackLE(calculate_crc16(body))

NoiseBytes == {0, START_BYTE}
FrameValues == {200, 257}

Tokens == ({"byte"} \X NoiseBytes) \cup ({"frame"} \X FrameValues) \cup {<<"gap", 0>>}

Plans == UNION {[1..n -> Tokens] : n \in 0..MaxItems}

FrameTable == [v \in FrameValues |-> ResponseFrame(v)]

\* the bursts a plan arrives in: a "gap" is a pause longer than the read timeout
RECURSIVE Bursts(_, _)
Bursts(p, acc) ==
    IF p = <<>> THEN acc
    ELSE LET t == Head(p)
             n == Len(acc)
         IN  Bursts(Tail(p),
                CASE t[1] = "gap"   -> Append(acc, <<>>)
                  [] t[1] = "byte"  -> [acc EXCEPT ![n] = Append(@, t[2])]
                  [] t[1] = "frame" -> [acc EXCEPT ![n] = @ \o FrameTable[t[2]]])

\* the data values of the frames of a plan, in order
RECURSIVE FramesOf(_)
FramesOf(p) ==
    IF p = <<>> THEN <<>>
    ELSE IF Head(p)[1] = "frame" THEN <<Head(p)[2]>> \o FramesOf(Tail(p))
    ELSE FramesOf(Tail(p))

----------------------------------------------------------------------------
(* read_current.py: the poll loop *)

GuiInit ==
    /\ is_reading = FALSE
    /\ stop_event = FALSE
    /\ serial_port = 0
    /\ open_ports = {}
    /\ time_data = <<>>
    /\ current_data = <<>>
    /\ line_x = <<>>
    /\ line_y = <<>>
    /\ main = "idle"
    /\ reader = [s \in 1..MaxSessions |-> "none"]
    /\ rlocal = [s \in 1..MaxSessions |-> 0]
    /\ updater = [s \in 1..MaxSessions |-> "none"]
    /\ sessions = 0
    /\ lines_read = 0
    /\ start_enabled = TRUE
    /\ last_call = "none"

\* the poll loop about to start, with the bytes that will arrive
CliInitOn(p, bursts) ==
    /\ plan = p
    /\ rx = bursts
    /\ link = "up"
    /\ failures = 0
    /\ pc = "send"
    /\ frame = <<>>
    /\ data_value = -1
    /\ timeouts = 0
    /\ consumed = <<>>
    /\ returned = <<>>
    /\ processed_data = <<>>
    /\ tx = <<>>
    /\ sink = <<>>

CliInitWith(p) == CliInitOn(p, Bursts(p, << <<>> >>))

\* calculate_crc16 is not being called on its own
CrcIdle ==
    /\ crc_data = <<>>
    /\ crc_result = -1

Init == (\E p \in Plans : CliInitWith(p)) /\ GuiInit /\ CrcIdle

Running == pc \in {"send", "scan", "rest", "store"}

\* send_command(ser): ser.write raises on a failed link, which nothing catches
SendCommand ==
    /\ UNCHANGED <<guiVars, crcVars>>
    /\ pc = "send"
    /\ IF link = "up"
       THEN /\ tx' = Append(tx, [bytes |-> Command, at |-> Len(consumed)])
            /\ sink' = Append(sink, "sent")
            /\ pc' = "scan"
       ELSE /\ pc' = "crashed"
            /\ UNCHANGED <<tx, sink>>
    /\ timeouts' = 0
    /\ UNCHANGED <<plan, failures, rx, link, frame, data_value, consumed, returned, processed_data>>

\* start_byte = ser.read(1) came back empty: `continue`
ReadTimeout ==
    /\ UNCHANGED <<guiVars, crcVars>>
    /\ pc = "scan" /\ link = "up"
    /\ (IF rx = <<>> THEN TRUE ELSE Head(rx) = <<>>)
    /\ timeouts < MaxTimeouts
    /\ timeouts' = timeouts + 1
    /\ rx' = IF rx = <<>> THEN rx ELSE Tail(rx)
    /\ consumed' = Append(consumed, -1)
    /\ UNCHANGED <<plan, failures, link, pc, frame, data_value, returned, processed_data, tx, sink>>

\* start_byte = ser.read(1) returned a byte
ReadStart ==
    /\ UNCHANGED <<guiVars, crcVars>>
    /\ pc = "scan" /\ link = "up"
    /\ (IF rx = <<>> THEN FALSE ELSE Head(rx) # <<>>)
    /\ LET b == Head(Head(rx))
       IN  /\ rx' = [rx EXCEPT ![1] = Tail(@)]
           /\ consumed' = Append(consumed, b)
           /\ IF b = START_BYTE
              THEN pc' = "rest" /\ frame' = <<b>>
              ELSE pc' = "scan" /\ frame' = frame
    /\ timeouts' = 0
    /\ UNCHANGED <<plan, failures, link, data_value, returned, processed_data, tx, sink>>

\* frame = start_byte + ser.read(6), and what follows it in the loop body
ReadRest ==
    /\ UNCHANGED <<guiVars, crcVars>>
    /\ pc = "rest" /\ link = "up"
    /\ LET avail == IF rx = <<>> THEN <<>> ELSE Head(rx)
           k     == Min(FRAME_REST, Len(avail))
           got   == SubSeq(avail, 1, k)
           f     == frame \o got
       IN  IF Len(f) < 1 + FRAME_REST
           THEN \* the read timed out: `continue`
                /\ rx' = IF rx = <<>> THEN rx ELSE Tail(rx)
                /\ consumed' = Append(consumed \o got, -1)
                /\ frame' = f
                /\ pc' = "scan"
                /\ UNCHANGED <<data_value, returned, sink>>
           ELSE /\ rx' = [rx EXCEPT ![1] = SubSeq(@, k + 1, Len(@))]
                /\ consumed' = consumed \o got
                /\ frame' = f
                /\ IF CrcMatches(f)
                   THEN /\ sink' = Append(sink, "valid")
                        /\ data_value' = DataValue(f)
                        /\ returned' = Append(returned,
                                          [val |-> DataValue(f), at |-> Len(consumed')])
                        /\ pc' = "store"
                   ELSE /\ sink' = Append(sink, "crc")
                        /\ pc' = "scan"
                        /\ UNCHANGED <<data_value, returned>>
    /\ UNCHANGED <<plan, failures, link, timeouts, processed_data, tx>>

\* ser.read raises SerialException: printed, the call returns None, nothing is stored
ReadFails ==
    /\ UNCHANGED <<guiVars, crcVars>>
    /\ pc \in {"scan", "rest"} /\ link = "down"
    /\ sink' = Append(sink, "serial")
    /\ data_value' = -1
    /\ pc' = "send"
    /\ UNCHANGED <<plan, failures, rx, link, frame, timeouts, consumed, returned, processed_data, tx>>

\* if data_value is not None: processed_data.append(data_value * 200 / 10000)
Store ==
    /\ UNCHANGED <<guiVars, crcVars>>
    /\ pc = "store"
    /\ processed_data' = DequeAppend(processed_data, ToPlot(data_value))
    /\ pc' = "send"
    /\ UNCHANGED <<plan, failures, rx, link, frame, data_value, timeouts, consumed, returned, tx, sink>>

\* the serial link fails: ser.read and ser.write raise SerialException
LinkFails ==
    /\ UNCHANGED <<guiVars, crcVars>>
    /\ Running /\ link = "up"
    /\ failures < MaxFailures
    /\ failures' = failures + 1
    /\ link' = "down"
    /\ UNCHANGED <<plan, rx, pc, frame, data_value, timeouts, consumed, returned,
                   processed_data, tx, sink>>

\* the failure was transient: ser.read and ser.write work again
LinkRecovers ==
    /\ UNCHANGED <<guiVars, crcVars>>
    /\ Running /\ link = "down"
    /\ link' = "up"
    /\ UNCHANGED <<plan, failures, rx, pc, frame, data_value, timeouts, consumed, returned,
                   processed_data, tx, sink>>

\* Ctrl+C: except KeyboardInterrupt
Interrupt ==
    /\ UNCHANGED <<guiVars, crcVars>>
    /\ Running
    /\ pc' = "stopped"
    /\ sink' = Append(sink, "stopped")
    /\ UNCHANGED <<plan, failures, rx, link, frame, data_value, timeouts, consumed, returned,
                   processed_data, tx>>

Next ==
    \/ SendCommand
    \/ ReadTimeout
    \/ ReadStart
    \/ ReadRest
    \/ ReadFails
    \/ Store
    \/ LinkFails
    \/ LinkRecovers
    \/ Interrupt

----------------------------------------------------------------------------
(* read_current_gui.py: the Tk main thread *)

Sessions == 1..MaxSessions

\* what a received line is: a number, text that float() rejects (an empty line
\* included), or bytes that are not UTF-8
LineKinds == {"num", "text", "bad"}

\* a sample (elapsed_time, current): the n-th numeric line, read while `sess`
\* start_reading calls had opened a port; later samples have larger ids
SampleId(sess, n) == sess * (MaxLines + 1) + n
SessionOf(x) == x \div (MaxLines + 1)

\* stop_reading, lines 114-124
StopEffects ==
    /\ is_reading' = FALSE
    /\ stop_event' = TRUE
    /\ open_ports' = open_ports \ {serial_port}
    /\ start_enabled' = TRUE
    /\ last_call' = "stop"

\* start_reading with no port selected: the error box, and return
StartNoPort ==
    /\ UNCHANGED <<cliVars, crcVars>>
    /\ main = "idle" /\ start_enabled
    /\ main' = "dialog"
    /\ UNCHANGED <<is_reading, stop_event, serial_port, open_ports, time_data,
                   current_data, line_x, line_y, reader, rlocal, updater, sessions,
                   lines_read, start_enabled, last_call>>

\* start_reading, line 87 raising: the error box of the except clause
StartOpenFails ==
    /\ UNCHANGED <<cliVars, crcVars>>
    /\ main = "idle" /\ start_enabled
    /\ main' = "dialog"
    /\ UNCHANGED <<is_reading, stop_event, serial_port, open_ports, time_data,
                   current_data, line_x, line_y, reader, rlocal, updater, sessions,
                   lines_read, start_enabled, last_call>>

\* start_reading, line 87: self.serial_port = serial.Serial(...)
StartOpens ==
    /\ UNCHANGED <<cliVars, crcVars>>
    /\ main = "idle" /\ start_enabled
    /\ sessions < MaxSessions
    /\ sessions' = sessions + 1
    /\ serial_port' = sessions + 1
    /\ open_ports' = open_ports \cup {sessions + 1}
    /\ main' = "l88"
    /\ last_call' = "start"
    /\ UNCHANGED <<is_reading, stop_event, time_data, current_data, line_x, line_y,
                   reader, rlocal, updater, lines_read, start_enabled>>

\* start_reading, line 88: self.is_reading = True
StartSetsReading ==
    /\ UNCHANGED <<cliVars, crcVars>>
    /\ main = "l88"
    /\ is_reading' = TRUE
    /\ main' = "l89"
    /\ last_call' = "start"
    /\ UNCHANGED <<stop_event, serial_port, open_ports, time_data, current_data,
                   line_x, line_y, reader, rlocal, updater, sessions, lines_read,
                   start_enabled>>

\* start_reading, line 89: self.stop_event.clear()
StartClearsEvent ==
    /\ UNCHANGED <<cliVars, crcVars>>
    /\ main = "l89"
    /\ stop_event' = FALSE
    /\ main' = "l92"
    /\ last_call' = "start"
    /\ UNCHANGED <<is_reading, serial_port, open_ports, time_data, current_data,
                   line_x, line_y, reader, rlocal, updater, sessions, lines_read,
                   start_enabled>>

\* start_reading, lines 92-95: the buttons
StartUpdatesUi ==
    /\ UNCHANGED <<cliVars, crcVars>>
    /\ main = "l92"
    /\ start_enabled' = FALSE
    /\ main' = "l98"
    /\ last_call' = "start"
    /\ UNCHANGED <<is_reading, stop_event, serial_port, open_ports, time_data,
                   current_data, line_x, line_y, reader, rlocal, updater, sessions,
                   lines_read>>

\* start_reading, line 98: self.time_data = []
StartClearsTime ==
    /\ UNCHANGED <<cliVars, crcVars>>
    /\ main = "l98"
    /\ time_data' = <<>>
    /\ main' = "l99"
    /\ last_call' = "start"
    /\ UNCHANGED <<is_reading, stop_event, serial_port, open_ports, current_data,
                   line_x, line_y, reader, rlocal, updater, sessions, lines_read,
                   start_enabled>>

\* start_reading, line 99: self.current_data = []
StartClearsCurrent ==
    /\ UNCHANGED <<cliVars, crcVars>>
    /\ main = "l99"
    /\ current_data' = <<>>
    /\ main' = "l102"
    /\ last_call' = "start"
    /\ UNCHANGED <<is_reading, stop_event, serial_port, open_ports, time_data,
                   line_x, line_y, reader, rlocal, updater, sessions, lines_read,
                   start_enabled>>

\* start_reading, lines 102-103: the read thread starts
StartSpawnsReader ==
    /\ UNCHANGED <<cliVars, crcVars>>
    /\ main = "l102"
    /\ reader' = [reader EXCEPT ![sessions] = "check"]
    /\ main' = "l106"
    /\ last_call' = "start"
    /\ UNCHANGED <<is_reading, stop_event, serial_port, open_ports, time_data,
                   current_data, line_x, line_y, rlocal, updater, sessions,
                   lines_read, start_enabled>>

\* start_reading, lines 106-107: the update thread starts
StartSpawnsUpdater ==
    /\ UNCHANGED <<cliVars, crcVars>>
    /\ main = "l106"
    /\ updater' = [updater EXCEPT ![sessions] = "loop"]
    /\ main' = "idle"
    /\ last_call' = "start"
    /\ UNCHANGED <<is_reading, stop_event, serial_port, open_ports, time_data,
                   current_data, line_x, line_y, reader, rlocal, sessions,
                   lines_read, start_enabled>>

\* the Stop button: stop_reading
StopClicked ==
    /\ UNCHANGED <<cliVars, crcVars>>
    /\ main = "idle" /\ ~start_enabled
    /\ StopEffects
    /\ UNCHANGED <<serial_port, time_data, current_data, line_x, line_y, main,
                   reader, rlocal, updater, sessions, lines_read>>

\* on_closing: stop_reading, then the window is destroyed
OnClosing ==
    /\ UNCHANGED <<cliVars, crcVars>>
    /\ main = "idle"
    /\ StopEffects
    /\ main' = "closed"
    /\ UNCHANGED <<serial_port, time_data, current_data, line_x, line_y,
                   reader, rlocal, updater, sessions, lines_read>>

\* save_plot: a warning with no data, else the file dialog and savefig
SavePlot ==
    /\ UNCHANGED <<cliVars, crcVars>>
    /\ main = "idle"
    /\ main' = "dialog"
    /\ UNCHANGED <<is_reading, stop_event, serial_port, open_ports, time_data,
                   current_data, line_x, line_y, reader, rlocal, updater, sessions,
                   lines_read, start_enabled, last_call>>

\* a message box or file dialog is dismissed
Dismiss ==
    /\ UNCHANGED <<cliVars, crcVars>>
    /\ main = "dialog"
    /\ main' = "idle"
    /\ UNCHANGED <<is_reading, stop_event, serial_port, open_ports, time_data,
                   current_data, line_x, line_y, reader, rlocal, updater, sessions,
                   lines_read, start_enabled, last_call>>

----------------------------------------------------------------------------
(* read_current_gui.py: read_serial_data, one thread per session *)

\* except Exception: print, self.stop_reading(), break
ReaderRaises(s) ==
    /\ StopEffects
    /\ reader' = [reader EXCEPT ![s] = "done"]

\* line 130: while self.is_reading and not self.stop_event.is_set()
ReaderCheck(s) ==
    /\ UNCHANGED <<cliVars, crcVars>>
    /\ reader[s] = "check"
    /\ reader' = [reader EXCEPT ![s] = IF is_reading /\ ~stop_event THEN "wait" ELSE "done"]
    /\ UNCHANGED <<is_reading, stop_event, serial_port, open_ports, time_data,
                   current_data, line_x, line_y, main, rlocal, updater, sessions,
                   lines_read, start_enabled, last_call>>

\* line 132: if self.serial_port.in_waiting, which raises on a closed port
ReaderWaits(s, waiting) ==
    /\ UNCHANGED <<cliVars, crcVars>>
    /\ reader[s] = "wait"
    /\ IF serial_port \in open_ports
       THEN /\ reader' = [reader EXCEPT ![s] = IF waiting THEN "read" ELSE "check"]
            /\ UNCHANGED <<is_reading, stop_event, open_ports, start_enabled, last_call>>
       ELSE ReaderRaises(s)
    /\ UNCHANGED <<serial_port, time_data, current_data, line_x, line_y, main,
                   rlocal, updater, sessions, lines_read>>

\* lines 133-136: readline().decode('utf-8').strip(), float(line)
ReaderReads(s, kind) ==
    /\ UNCHANGED <<cliVars, crcVars>>
    /\ reader[s] = "read"
    /\ kind = "num" => lines_read < MaxLines
    /\ IF serial_port \notin open_ports \/ kind = "bad"
       THEN \* the port is closed, or UnicodeDecodeError: the outer except
            /\ ReaderRaises(s)
            /\ UNCHANGED <<rlocal, lines_read>>
       ELSE IF kind = "text"
       THEN \* ValueError from float(): pass
            /\ reader' = [reader EXCEPT ![s] = "check"]
            /\ UNCHANGED <<is_reading, stop_event, open_ports, start_enabled,
                           last_call, rlocal, lines_read>>
       ELSE /\ lines_read' = lines_read + 1
            /\ rlocal' = [rlocal EXCEPT ![s] = SampleId(sessions, lines_read + 1)]
            /\ reader' = [reader EXCEPT ![s] = "app_t"]
            /\ UNCHANGED <<is_reading, stop_event, open_ports, start_enabled, last_call>>
    /\ UNCHANGED <<serial_port, time_data, current_data, line_x, line_y, main,
                   updater, sessions>>

\* line 138: self.time_data.append(elapsed_time)
ReaderAppendsTime(s) ==
    /\ UNCHANGED <<cliVars, crcVars>>
    /\ reader[s] = "app_t"
    /\ time_data' = Append(time_data, rlocal[s])
    /\ reader' = [reader EXCEPT ![s] = "app_c"]
    /\ UNCHANGED <<is_reading, stop_event, serial_port, open_ports, current_data,
                   line_x, line_y, main, rlocal, updater, sessions, lines_read,
                   start_enabled, last_call>>

\* line 139: self.current_data.append(current)
ReaderAppendsCurrent(s) ==
    /\ UNCHANGED <<cliVars, crcVars>>
    /\ reader[s] = "app_c"
    /\ current_data' = Append(current_data, rlocal[s])
    /\ reader' = [reader EXCEPT ![s] = "len"]
    /\ UNCHANGED <<is_reading, stop_event, serial_port, open_ports, time_data,
                   line_x, line_y, main, rlocal, updater, sessions, lines_read,
                   start_enabled, last_call>>

\* line 142: if len(self.time_data) > self.max_points
ReaderChecksLen(s) ==
    /\ UNCHANGED <<cliVars, crcVars>>
    /\ reader[s] = "len"
    /\ reader' = [reader EXCEPT ![s] = IF Len(time_data) > max_points THEN "pop_t" ELSE "check"]
    /\ UNCHANGED <<is_reading, stop_event, serial_port, open_ports, time_data,
                   current_data, line_x, line_y, main, rlocal, updater, sessions,
                   lines_read, start_enabled, last_call>>

\* line 143: self.time_data.pop(0), IndexError on an empty list
ReaderPopsTime(s) ==
    /\ UNCHANGED <<cliVars, crcVars>>
    /\ reader[s] = "pop_t"
    /\ IF time_data = <<>>
       THEN ReaderRaises(s) /\ UNCHANGED time_data
       ELSE /\ time_data' = Tail(time_data)
            /\ reader' = [reader EXCEPT ![s] = "pop_c"]
            /\ UNCHANGED <<is_reading, stop_event, open_ports, start_enabled, last_call>>
    /\ UNCHANGED <<serial_port, current_data, line_x, line_y, main, rlocal, updater,
                   sessions, lines_read>>

\* line 144: self.current_data.pop(0), IndexError on an empty list
ReaderPopsCurrent(s) ==
    /\ UNCHANGED <<cliVars, crcVars>>
    /\ reader[s] = "pop_c"
    /\ IF current_data = <<>>
       THEN ReaderRaises(s) /\ UNCHANGED current_data
       ELSE /\ current_data' = Tail(current_data)
            /\ reader' = [reader EXCEPT ![s] = "check"]
            /\ UNCHANGED <<is_reading, stop_event, open_ports, start_enabled, last_call>>
    /\ UNCHANGED <<serial_port, time_data, line_x, line_y, main, rlocal, updater,
                   sessions, lines_read>>

----------------------------------------------------------------------------
(* read_current_gui.py: update_plot, one thread per session *)

\* lines 156-158: the loop test, len(self.time_data) > 0, and the x data of
\* set_data; with nothing to draw the thread sleeps and tests again
UpdaterLoop(s) ==
    /\ UNCHANGED <<cliVars, crcVars>>
    /\ updater[s] = "loop"
    /\ IF ~(is_reading /\ ~stop_event)
       THEN updater' = [updater EXCEPT ![s] = "done"] /\ UNCHANGED line_x
       ELSE IF Len(time_data) > 0
       THEN updater' = [updater EXCEPT ![s] = "set_y"] /\ line_x' = time_data
       ELSE UNCHANGED <<updater, line_x>>
    /\ UNCHANGED <<is_reading, stop_event, serial_port, open_ports, time_data,
                   current_data, line_y, main, reader, rlocal, sessions, lines_read,
                   start_enabled, last_call>>

\* lines 158-162: the y data of set_data, the redraw and the sleep
UpdaterSetsY(s) ==
    /\ UNCHANGED <<cliVars, crcVars>>
    /\ updater[s] = "set_y"
    /\ line_y' = current_data
    /\ updater' = [updater EXCEPT ![s] = "loop"]
    /\ UNCHANGED <<is_reading, stop_event, serial_port, open_ports, time_data,
                   current_data, line_x, main, reader, rlocal, sessions, lines_read,
                   start_enabled, last_call>>

InitGui == CliInitWith(<<>>) /\ GuiInit /\ CrcIdle

NextGui ==
    \/ StartNoPort
    \/ StartOpenFails
    \/ StartOpens
    \/ StartSetsReading
    \/ StartClearsEvent
    \/ StartUpdatesUi
    \/ StartClearsTime
    \/ StartClearsCurrent
    \/ StartSpawnsReader
    \/ StartSpawnsUpdater
    \/ StopClicked
    \/ OnClosing
    \/ SavePlot
    \/ Dismiss
    \/ \E s \in Sessions : ReaderCheck(s)
    \/ \E s \in Sessions, waiting \in BOOLEAN : ReaderWaits(s, waiting)
    \/ \E s \in Sessions, kind \in LineKinds : ReaderReads(s, kind)
    \/ \E s \in Sessions : ReaderAppendsTime(s)
    \/ \E s \in Sessions : ReaderAppendsCurrent(s)
    \/ \E s \in Sessions : ReaderChecksLen(s)
    \/ \E s \in Sessions : ReaderPopsTime(s)
    \/ \E s \in Sessions : ReaderPopsCurrent(s)
    \/ \E s \in Sessions : UpdaterLoop(s)
    \/ \E s \in Sessions : UpdaterSetsY(s)

SpecGui == InitGui /\ [][NextGui]_vars

----------------------------------------------------------------------------
(* Properties of the threaded reader *)

\* C5 (as claimed): what update_plot hands to the plot is a consistent snapshot
\* of the history: once no update_plot thread is between its two reads, the x
\* data and the y data are the same samples, and no more than max_points.
C5_ConsistentSnapshots ==
    (\A s \in Sessions : updater[s] # "set_y") =>
        /\ line_x = line_y
        /\ Len(line_x) <= max_points

\* C6 (as claimed): in every state, the states inside a push included, the
\* rolling buffer holds at most its capacity: the deque of the poller and the
\* two lists of the threaded reader.
C6_BufferBounded ==
    /\ Len(processed_data) <= window_size
    /\ Len(time_data) <= max_points
    /\ Len(current_data) <= max_points

Ascending(q) == \A i, j \in 1..Len(q) : i < j => q[i] < q[j]

\* C7 (as claimed): whatever the start_reading and stop_reading calls, no two
\* read_serial_data threads are at an append at once, and the samples are in
\* the lists in the order they were received.
C7_SingleProducer ==
    /\ Cardinality({s \in Sessions : reader[s] \in {"app_t", "app_c"}}) <= 1
    /\ Ascending(time_data)
    /\ Ascending(current_data)

AllThreadsEnded ==
    \A s \in Sessions : reader[s] \in {"none", "done"} /\ updater[s] \in {"none", "done"}

\* C8 (as claimed): when stop_reading was the last control call and the threads
\* have ended, the transport is closed and the history holds whole samples only.
C8_StoppedIsConsistent ==
    (last_call = "stop" /\ main \in {"idle", "closed"} /\ AllThreadsEnded) =>
        /\ serial_port \notin open_ports
        /\ Len(time_data) = Len(current_data)

\* no reader thread is inside a push
NoPushInProgress == \A s \in Sessions : reader[s] \in {"none", "check", "wait", "read", "done"}

\* the step of reader s that takes a received line which is not a number
NonNumericLineStep(s) ==
    /\ reader[s] = "read" /\ reader'[s] # "read"
    /\ serial_port \in open_ports
    /\ lines_read' = lines_read

\* C19 (as claimed): a received line that is not a number is ignored: the
\* history is left as it was, the port stays open and the reader goes on to its
\* next loop test.
C19_NonNumericIgnored ==
    [][\A s \in Sessions :
          NonNumericLineStep(s) =>
              /\ time_data' = time_data /\ current_data' = current_data
              /\ open_ports' = open_ports
              /\ reader'[s] = "check"]_vars

\* start_reading has returned and nothing was clicked since
StartCompleted == main = "idle" /\ last_call = "start" /\ sessions >= 1

OfThisSession(q) == \A i \in 1..Len(q) : SessionOf(q[i]) = sessions

\* C20 (as claimed): after a successful start_reading the history holds only
\* samples read since that call, and the two lists are equally long whenever
\* no reader is inside a push.
C20_FreshHistory ==
    StartCompleted =>
        /\ OfThisSession(time_data) /\ OfThisSession(current_data)
        /\ NoPushInProgress => Len(time_data) = Len(current_data)

----------------------------------------------------------------------------
(* Properties of the poll loop *)

IsPrefix(s, t) == Len(s) <= Len(t) /\ \A i \in 1..Len(s) : s[i] = t[i]

ReturnedVals == [i \in 1..Len(returned) |-> returned[i].val]

\* every byte of the plan has been read
AllRead == \A i \in 1..Len(rx) : rx[i] = <<>>

NoGaps(p) == \A i \in 1..Len(p) : p[i][1] # "gap"

\* [garbage bytes][valid frame][garbage bytes][valid frame]
TwoFramesInNoise(p) ==
    /\ NoGaps(p)
    /\ Len(FramesOf(p)) = 2
    /\ p[Len(p)][1] = "frame"

\* C1 (as claimed): on a stream [garbage][frame][garbage][frame] the calls return
\* the first frame's value and then the second's, and nothing else: what has been
\* returned is always a prefix of the two values, and is both of them once the
\* stream has been read.
C1_BothFramesInOrder ==
    TwoFramesInNoise(plan) =>
        /\ IsPrefix(ReturnedVals, FramesOf(plan))
        /\ (AllRead => ReturnedVals = FramesOf(plan))

\* garbage bytes, then nothing but at least two valid frames
NoiseThenFrames(p) ==
    /\ NoGaps(p)
    /\ \E n \in 0..Len(p) :
          /\ \A i \in 1..n : p[i][1] = "byte"
          /\ \A i \in (n + 1)..Len(p) : p[i][1] = "frame"
          /\ Len(p) - n >= 2

\* C2 (as claimed): after a prefix of garbage, an unbroken run of valid frames gets
\* a frame returned: once such a stream has been read, some call has returned.
C2_ResyncReturnsFrame ==
    (NoiseThenFrames(plan) /\ AllRead) => returned # <<>>

OnlyGaps(p) == \A i \in 1..Len(p) : p[i][1] = "gap"

\* C3 (as claimed): when every read times out and no start byte was found, the
\* call ends after a bounded number of reads: after MaxTimeouts empty reads in a
\* row it is no longer scanning.
C3_TimeoutEndsCall ==
    (OnlyGaps(plan) /\ timeouts >= MaxTimeouts) => pc \notin {"scan", "rest"}

\* w is 7 bytes read with no timeout between them, starts with 0x01 and ends
\* with the CRC16 of its first 5 bytes, low byte first
ValidWindow(w) ==
    /\ Len(w) = 7
    /\ \A i \in 1..7 : w[i] >= 0
    /\ w[1] = 1
    /\ w[6] + 256 * w[7] = calculate_crc16(SubSeq(w, 1, 5))

\* a step in which a call returns a value: the value is decoded from the 7 bytes
\* read last, and they are a valid window
ReturnStepValid ==
    returned' # returned =>
        /\ returned' = Append(returned, returned'[Len(returned')])
        /\ LET r == returned'[Len(returned')]
               w == SubSeq(consumed', r.at - 6, r.at)
           IN  /\ r.at = Len(consumed') /\ r.at >= 7
               /\ ValidWindow(w)
               /\ r.val = w[4] * 256 + w[5]

\* the step of the poll loop that appends to the rolling buffer
StoreStep == pc = "store" /\ pc' = "send"

FailedAttempt ==
    \/ pc = "scan" /\ pc' = "scan" /\ timeouts' > timeouts
    \/ pc = "rest" /\ pc' = "scan"

\* C9 (as claimed): every failed attempt of the receive loop prints something
\* before the loop retries.
C9_EveryFailureNotified ==
    [][FailedAttempt => Len(sink') > Len(sink)]_vars

\* the read of the 6 bytes after a start byte came back short
IncompleteFrameStep ==
    /\ pc = "rest"
    /\ consumed' # consumed
    /\ Len(IF rx = <<>> THEN <<>> ELSE Head(rx)) < FRAME_REST

\* C10 (as claimed): a start byte followed by fewer than 6 bytes: the partial
\* frame is dropped, the call ends (reporting IncompleteFrame to its caller) and
\* no sample comes of it.
C10_IncompleteFrameReported ==
    [][IncompleteFrameStep =>
          /\ pc' \notin {"scan", "rest"}
          /\ returned' = returned
          /\ processed_data' = processed_data]_vars

\* receive_data_with_crc catches a SerialException
SerialErrorStep ==
    /\ pc \in {"scan", "rest"} /\ link = "down"
    /\ sink' = Append(sink, "serial")

SerialErrorSeen == \E i \in 1..Len(sink) : sink[i] = "serial"

\* C11 (as claimed): a serial error ends the poll loop, and after it nothing more
\* is written to or read from the port; an empty read, a short frame or a CRC
\* mismatch never ends the loop.
C11_TransportFailureIsFatal ==
    [][/\ SerialErrorStep => ~Running'
       /\ SerialErrorSeen => (tx' = tx /\ consumed' = consumed)
       /\ FailedAttempt => Running']_vars

\* the 8 bytes of the read-register request: address 01, function 03,
\* register 0056, count 0001, CRC 1A64 low byte first
RequestBytes == <<1, 3, 0, 86, 0, 1, 100, 26>>

\* the CRC16 of the first 6 bytes of the request
RequestCrc == calculate_crc16(SubSeq(RequestBytes, 1, 6))

\* C16: every command written is the same 8 bytes: 01 03 00 56 00 01 and the
\* CRC16 of those 6 bytes, low byte first. Each step that writes to the port
\* adds one such command and leaves the earlier ones as they were.
C16_CommandBytes ==
    [][tx' # tx =>
          /\ Len(tx') = Len(tx) + 1
          /\ SubSeq(tx', 1, Len(tx)) = tx
          /\ LET c == tx'[Len(tx')].bytes
             IN  /\ c = RequestBytes
                 /\ Len(c) = 8
                 /\ c[7] + 256 * c[8] = RequestCrc]_vars

\* the command has been written on two poll cycles
C16_Witness == Len(tx) >= 2 /\ Len(returned) >= 1

\* C18 (as claimed): at every store, as many commands have been written as
\* samples were returned (one command between two consecutive stores), and the
\* 7 bytes the sample was decoded from were read after the last command was
\* written.
C18_OneCommandPerStore ==
    [][StoreStep =>
          /\ Len(tx) = Len(returned)
          /\ returned[Len(returned)].at - 6 > tx[Len(tx)].at]_vars

Spec == Init /\ [][Next]_vars

----------------------------------------------------------------------------
(* The two rolling buffers filled without interference: the poll loop on a  *)
(* clean stream of frames, and one read_serial_data thread on its own.       *)

FramePlans == UNION {[1..n -> {"frame"} \X FrameValues] : n \in 0..MaxItems}

InitBuffers == (\E p \in FramePlans : CliInitWith(p)) /\ GuiInit /\ CrcIdle

NextBuffers ==
    \/ SendCommand
    \/ ReadTimeout
    \/ ReadStart
    \/ ReadRest
    \/ Store
    \/ StartOpens
    \/ StartSetsReading
    \/ StartClearsEvent
    \/ StartUpdatesUi
    \/ StartClearsTime
    \/ StartClearsCurrent
    \/ StartSpawnsReader
    \/ StartSpawnsUpdater
    \/ \E s \in Sessions : ReaderCheck(s)
    \/ \E s \in Sessions, waiting \in BOOLEAN : ReaderWaits(s, waiting)
    \/ \E s \in Sessions, kind \in {"num", "text"} : ReaderReads(s, kind)
    \/ \E s \in Sessions : ReaderAppendsTime(s)
    \/ \E s \in Sessions : ReaderAppendsCurrent(s)
    \/ \E s \in Sessions : ReaderChecksLen(s)
    \/ \E s \in Sessions : ReaderPopsTime(s)
    \/ \E s \in Sessions : ReaderPopsCurrent(s)

SpecBuffers == InitBuffers /\ [][NextBuffers]_vars

----------------------------------------------------------------------------
(* The poll loop on one 7-byte response: well formed, with one bit flipped,  *)
(* or with its two CRC bytes swapped.                                        *)

HighBytes == {0, 1, 2, 3, 15, 16, 100, 127, 128, 200, 254, 255}
RoundTripValues == {h * 256 + l : h \in HighBytes, l \in 0..255}
FlipValues == FrameValues \cup {0, 65535}
BitPositions == 0..55

Pow2(k) == IF k = 0 THEN 1 ELSE IF k = 1 THEN 2 ELSE IF k = 2 THEN 4
           ELSE IF k = 3 THEN 8 ELSE IF k = 4 THEN 16 ELSE IF k = 5 THEN 32
           ELSE IF k = 6 THEN 64 ELSE 128

\* bit (pos mod 8) of byte (pos div 8) of f inverted
FlipBit(f, pos) == [f EXCEPT ![(pos \div 8) + 1] = BitXor(@, Pow2(pos % 8))]

\* the last two bytes of f exchanged
SwapCrc(f) == SubSeq(f, 1, Len(f) - 2) \o <<f[Len(f)], f[Len(f) - 1]>>

WireInputs ==
    ({"frame"} \X RoundTripValues \X {0})
        \cup ({"flip"} \X FlipValues \X BitPositions)
        \cup ({"swap"} \X FlipValues \X {0})

\* the bytes on the wire for an input
Wire(t) ==
    CASE t[1] = "frame" -> ResponseFrame(t[2])
      [] t[1] = "flip"  -> FlipBit(ResponseFrame(t[2]), t[3])
      [] t[1] = "swap"  -> SwapCrc(ResponseFrame(t[2]))

InitFrames == (\E t \in WireInputs : CliInitOn(<<t>>, <<Wire(t)>>)) /\ GuiInit /\ CrcIdle

SpecFrames == InitFrames /\ [][Next]_vars

\* C13: when the stream delivers the well-formed response for v and no serial
\* error interrupts the read, the call returns v, and nothing but v: what has
\* been returned is at most <<v>>, and is <<v>> once the 7 bytes have been read.
C13_RoundTrip ==
    (plan[1][1] = "frame" /\ failures = 0) =>
        /\ IsPrefix(ReturnedVals, <<plan[1][2]>>)
        /\ (AllRead => ReturnedVals = <<plan[1][2]>>)

\* a value whose high byte is the start byte has been returned and stored
C13_Witness ==
    /\ plan[1] = <<"frame", 511, 0>>
    /\ failures = 0 /\ pc = "send"
    /\ ReturnedVals = <<511>>

CrcReported == \E i \in 1..Len(sink) : sink[i] = "crc"

\* C14 (amended): a response with one bit flipped never yields a sample. With
\* the bit in bytes 1..6 the 7 bytes are read as a frame and rejected with
\* "CRC mismatch"; with the bit in byte 0 the first byte is not a start byte,
\* it is skipped, and no CRC mismatch is ever reported.
C14_BitFlipRejected ==
    plan[1][1] = "flip" =>
        /\ returned = <<>> /\ processed_data = <<>>
        /\ (plan[1][3] >= 8 /\ failures = 0 /\ AllRead) => CrcReported
        /\ plan[1][3] < 8 => ~CrcReported

\* C14 (as claimed): whichever of the 56 bits is flipped, the response is
\* rejected with a CRC mismatch and yields no sample.
C14_EveryFlipIsChecksumMismatch ==
    plan[1][1] = "flip" =>
        /\ returned = <<>> /\ processed_data = <<>>
        /\ (failures = 0 /\ AllRead) => CrcReported

\* a response with a flipped data bit was read and rejected
C14_Witness ==
    /\ plan[1][1] = "flip" /\ plan[1][3] >= 8
    /\ failures = 0 /\ AllRead /\ CrcReported /\ returned = <<>>

\* the step that rejects 01 03 02 00 C8 with its CRC bytes swapped
SwappedCrcRejected ==
    /\ plan[1] = <<"swap", 200, 0>>
    /\ pc = "rest" /\ sink' = Append(sink, "crc")

\* C15 (as claimed): the response for 200 with its CRC bytes swapped is rejected
\* with a CRC mismatch, the call ends there (it does not go on scanning), and
\* no sample is stored.
C15_SwappedCrcEndsCall ==
    [][/\ plan[1] = <<"swap", 200, 0>> => (returned' = <<>> /\ processed_data' = <<>>)
       /\ SwappedCrcRejected => pc' \notin {"scan", "rest"}]_vars

\* the last n elements of q, all of q when it has no more than n
LastN(q, n) == IF Len(q) <= n THEN q ELSE SubSeq(q, Len(q) - n + 1, Len(q))

\* what the poll loop has pushed so far, in push order
PushedToDeque ==
    LET n == IF pc = "store" THEN Len(returned) - 1 ELSE Len(returned)
    IN  [i \in 1..n |-> ToPlot(returned[i].val)]

\* what the first reader thread has pushed so far, in push order
PushedToLists == [i \in 1..lines_read |-> SampleId(1, i)]

----------------------------------------------------------------------------
(* calculate_crc16 called on its own *)

CrcByteSamples == {0, 1, 3, 86, 128, 200, 255}

CrcInputs ==
    UNION {[1..n -> CrcByteSamples] : n \in 0..MaxCrcLen} \cup {<<b>> : b \in 0..255}

InitCrc ==
    /\ CliInitWith(<<>>) /\ GuiInit
    /\ crc_data \in CrcInputs
    /\ crc_result = -1

\* calculate_crc16(data) runs and returns
CalculateCrc ==
    /\ crc_result = -1
    /\ crc_result' = calculate_crc16(crc_data)
    /\ UNCHANGED <<crc_data, cliVars, guiVars>>

NextCrc == CalculateCrc

SpecCrc == InitCrc /\ [][NextCrc]_vars

\* The reference algorithm on a 16-bit accumulator written as its bits, lowest
\* bit first.
RECURSIVE ToBits(_, _)
ToBits(x, n) == IF n = 0 THEN <<>> ELSE <<x % 2>> \o ToBits(x \div 2, n - 1)

RECURSIVE FromBits(_)
FromBits(a) == IF a = <<>> THEN 0 ELSE Head(a) + 2 * FromBits(Tail(a))

RECURSIVE XorBits(_, _)
XorBits(a, b) ==
    IF a = <<>> THEN <<>>
    ELSE <<(Head(a) + Head(b)) % 2>> \o XorBits(Tail(a), Tail(b))

\* 0xFFFF and 0xA001
RefAllOnes == <<1, 1, 1, 1, 1, 1, 1, 1, 1, 1, 1, 1, 1, 1, 1, 1>>
RefPoly == <<1, 0, 0, 0, 0, 0, 0, 0, 0, 0, 0, 0, 0, 1, 0, 1>>

\* shift right by one; XOR with 0xA001 if the low bit was set
RefRound(acc) ==
    LET shifted == Tail(acc) \o <<0>>
    IN  IF Head(acc) = 1 THEN XorBits(shifted, RefPoly) ELSE shifted

RECURSIVE RefRounds(_, _)
RefRounds(acc, n) ==
    IF n = 0 THEN acc
    ELSE IF Len(acc) = 16 THEN RefRounds(RefRound(acc), n - 1) ELSE acc

\* the accumulator after the first n bytes
RECURSIVE RefAcc(_, _)
RefAcc(data, n) ==
    IF n = 0 THEN RefAllOnes
    ELSE RefRounds(XorBits(RefAcc(data, n - 1), ToBits(data[n], 16)), 8)

RefCrc16(data) == FromBits(RefAcc(data, Len(data)))

\* C17: calculate_crc16 of the empty byte string is 0xFFFF, and for every byte
\* string its result is that of the reference algorithm and is in 0..0xFFFF.
C17_CrcMatchesReference ==
    crc_result # -1 =>
        /\ crc_result = RefCrc16(crc_data)
        /\ crc_result \in 0..65535
        /\ (crc_data = <<>> => crc_result = 65535)

\* the CRC of the first three bytes of the command has been computed
C17_Witness ==
    /\ crc_data = <<1, 3, 0>>
    /\ crc_result \notin {-1, 65535}

=============================================================================
